---- MODULE Spec2Model ----
(***************************************************************************)
(* Model of cmake_min_version.py: the search for the minimal CMake version *)
(* that configures a project, by bisection (binary_search) or by an        *)
(* ascending scan (full_search) over the inventory of CMake binaries.      *)
(*                                                                         *)
(* Indices are 0-based as in the Python source; the TLA+ sequences are     *)
(* 1-based, so versions[i] of the source is versions[i + 1] here.          *)
(***************************************************************************)
EXTENDS Integers, Sequences, FiniteSets, TLC

\* ------------------------------------------------------------------ bounds
\* Largest inventory (number of CMakeBinary entries) explored with arbitrary
\* version hints and launch failures.
MaxN == 3
\* Largest inventory explored when no probe carries a usable version hint.
MaxBlindN == 7
\* Version strings are abstracted to the numbers 1..MaxVer, ordered as
\* packaging.version orders them.
MaxVer == 3
\* Longest text captured from stderr, counted in dots and digit groups.
MaxTokenLen == 8
\* The step counter and the transcript stop growing here, so that a search
\* that never leaves its loop still has finitely many states.
MaxSteps == MaxBlindN + 1

\* ------------------------------------------------------------- Python None
\* last_success_idx = None / the Optional[CMakeBinary] result being None.
None == -1
\* proposed_version = None (the 'or higher is required' pattern did not match).
NoVersion == 0
\* re.findall(...) == []: stderr has no 'CMake ... or higher is required.'
NoMatch == <<>>

VARIABLES
    dirnames,          \* the 'cmake-*' directories under the tools directory
    version_dict,      \* keys of the version dictionary returned by create_version_dirs
    stderr,            \* the text the 'or higher is required' pattern captures in one stderr
    on_disk,           \* indices of the entries whose binary file exists
    versions,          \* List[CMakeBinary] returned by get_cmake_binaries: the version of each entry
    probe,             \* the environment: what running the binary of each entry does
    full_search_flag,  \* args.full_search
    pc,                \* position of the program
    lower_idx,
    upper_idx,
    last_success_idx,
    steps,
    mid_idx,
    result,            \* the ConfigureResult of the last probe
    transcript,        \* indices of the entries probed so far, in order (one printed line each)
    working_version,   \* value returned by the search: index of the entry, or None
    report             \* what the program printed last as its outcome

vars == <<dirnames, version_dict, stderr, on_disk, versions, probe, full_search_flag, pc, lower_idx, upper_idx,
          last_success_idx, steps, mid_idx, result, transcript,
          working_version, report>>

\* ------------------------------------------------------------- environment
\* sorted(binaries, key=version_parse(x.version)): ascending, equal versions
\* allowed (two directories may encode the same version).
SortedInventories ==
    UNION { { s \in [1..n -> 1..MaxVer] : \A i \in 1..n : \A j \in 1..n : i < j => s[i] <= s[j] }
            : n \in 0..MaxN }

\* What a probe of one entry does: the binary cannot be materialized or
\* started (launch = FALSE), or it runs and exits with return_code, its
\* stderr naming `hint` as the version that is required (NoVersion: stderr
\* has no such sentence).  A run that exits with 0 prints no such sentence.
ProbeBehaviours ==
    { [launch |-> FALSE, return_code |-> 0, hint |-> NoVersion],
      [launch |-> TRUE,  return_code |-> 0, hint |-> NoVersion] }
    \cup { [launch |-> TRUE, return_code |-> 1, hint |-> h] : h \in 0..MaxVer }

N == Len(versions)

\* --------------------------------------------------------- pure functions
\* ConfigureResult.__init__: success and proposed_version of a finished run.
ConfigureResult(return_code, hint) ==
    [success |-> (return_code = 0), proposed_version |-> hint]

NoResult == [success |-> FALSE, proposed_version |-> NoVersion]

\* Mutant of MidIdx: the lowest index of the range is probed instead of the
\* middle one.
MidIdx_Lowest(lo, hi) == lo

\* mid_idx = int((lower_idx + upper_idx) / 2)
MidIdx(lo, hi) == (lo + hi) \div 2

\* [x for x in versions if x.version == result.proposed_version]
ProposedBinary(vs, proposed) == { i \in 0..(Len(vs) - 1) : vs[i + 1] = proposed }

\* versions.index(proposed_binary[0]): the first entry of that version.
IndexOfProposed(vs, proposed) ==
    CHOOSE i \in ProposedBinary(vs, proposed) : \A j \in ProposedBinary(vs, proposed) : i <= j

\* Mutant of NextLowerIdx: the fallback steps over the entry after mid_idx.
NextLowerIdx_SkipOne(vs, proposed, mid) ==
    IF ProposedBinary(vs, proposed) # {} THEN IndexOfProposed(vs, proposed) ELSE mid + 2

\* Mutant of NextLowerIdx: a hinted index below mid_idx + 1 is replaced by
\* mid_idx + 1.
NextLowerIdx_Clamped(vs, proposed, mid) ==
    IF ProposedBinary(vs, proposed) # {} /\ IndexOfProposed(vs, proposed) > mid
        THEN IndexOfProposed(vs, proposed)
        ELSE mid + 1

\* Mutant of NextLowerIdx: the search resumes one entry before the proposed one.
NextLowerIdx_Before(vs, proposed, mid) ==
    IF ProposedBinary(vs, proposed) # {} THEN IndexOfProposed(vs, proposed) - 1 ELSE mid + 1

\* lower_idx = versions.index(proposed_binary[0]) if len(proposed_binary) else mid_idx + 1
NextLowerIdx(vs, proposed, mid) ==
    IF ProposedBinary(vs, proposed) # {} THEN IndexOfProposed(vs, proposed) ELSE mid + 1

\* if not last_success_idx or last_success_idx > steps - 1: last_success_idx = steps - 1
\* (`not last_success_idx` is true for None and for 0)
FullNextLastSuccess(last, st) ==
    IF last = None \/ last = 0 \/ last > st - 1 THEN st - 1 ELSE last

\* versions[last_success_idx] if last_success_idx is not None else None
SearchResult(last) == IF last # None THEN last ELSE None

\* steps += 1, capped
IncSteps(st) == IF st < MaxSteps THEN st + 1 ELSE st

\* one more printed probe line, capped
Logged(tr, idx) == IF Len(tr) < MaxSteps THEN Append(tr, idx) ELSE tr

\* The parameters of download_and_extract (cmake_downloader.py).
DownloadAndExtractParams == {"url", "path"}

\* download_and_extract: nothing is fetched when the directory named by the
\* archive exists already, else the archive is extracted there.
DownloadAndExtract(disk, idx, dir_exists) ==
    IF dir_exists THEN disk ELSE disk \cup {idx}

\* get_binary raises: the binary is missing and download_and_extract is called
\* with the keywords url, path and clobber, which it must all accept.
GetBinaryRaises(disk, idx) ==
    idx \notin disk /\ ~({"url", "path", "clobber"} \subseteq DownloadAndExtractParams)

\* get_binary: the files on disk after it.  The directory of an inventory
\* entry exists, since the entry was found by the glob over the directories.
GetBinary(disk, idx) ==
    IF idx \in disk \/ GetBinaryRaises(disk, idx)
        THEN disk
        ELSE DownloadAndExtract(disk, idx, TRUE)

\* Mutant of Launches: a process that could not be started is taken as one
\* that finished.
Launches_Always(disk, idx, behaviour) == TRUE

\* try_configure gets a finished process: get_binary returned, the binary is
\* there and subprocess.Popen started it.
Launches(disk, idx, behaviour) ==
    ~GetBinaryRaises(disk, idx) /\ idx \in disk /\ behaviour.launch

\* ------------------------------------------------------------------- Init
\* The program before main runs: nothing searched, nothing printed.
InitProgram ==
    /\ full_search_flag \in BOOLEAN
    /\ pc = "main"
    /\ stderr = NoMatch
    /\ lower_idx = 0
    /\ upper_idx = 0
    /\ last_success_idx = None
    /\ steps = 0
    /\ mid_idx = 0
    /\ result = NoResult
    /\ transcript = <<>>
    /\ working_version = None
    /\ report = "none"

\* The inventory has been scanned (the directories are not read again) and
\* every binary of it is on disk.
Scanned ==
    /\ dirnames = {}
    /\ version_dict = {}

Init ==
    /\ versions \in SortedInventories
    /\ probe \in [1..Len(versions) -> ProbeBehaviours]
    /\ on_disk = 0..(Len(versions) - 1)
    /\ Scanned
    /\ InitProgram

\* Inventories of distinct versions 1..n whose binaries all start, and whose
\* failures either name no version or name one newer than every entry.
BlindInventories == { [i \in 1..n |-> i] : n \in 0..MaxBlindN }

BlindBehaviours(n) ==
    { [launch |-> TRUE, return_code |-> 0, hint |-> NoVersion],
      [launch |-> TRUE, return_code |-> 1, hint |-> NoVersion],
      [launch |-> TRUE, return_code |-> 1, hint |-> n + 1] }

BlindInit ==
    /\ versions \in BlindInventories
    /\ probe \in [1..Len(versions) -> BlindBehaviours(Len(versions))]
    /\ on_disk = 0..(Len(versions) - 1)
    /\ Scanned
    /\ InitProgram

\* Inventories some of whose binaries are not on disk yet (only their
\* directory is), and what each binary does once it is there; no version
\* hints.
MaterialBehaviours ==
    { [launch |-> FALSE, return_code |-> 0, hint |-> NoVersion],
      [launch |-> TRUE,  return_code |-> 0, hint |-> NoVersion],
      [launch |-> TRUE,  return_code |-> 1, hint |-> NoVersion] }

MaterialInit ==
    /\ versions \in SortedInventories
    /\ probe \in [1..Len(versions) -> MaterialBehaviours]
    /\ on_disk \in SUBSET (0..(Len(versions) - 1))
    /\ Scanned
    /\ InitProgram

\* ---------------------------------------------------------- binary_search
\* lines 142-153: empty inventory is the fatal error, else set up the bounds.
BinarySearchStart ==
    /\ pc = "main"
    /\ ~full_search_flag
    /\ IF N = 0
         THEN /\ report' = "NoBinariesFound"
              /\ pc' = "exit"
              /\ UNCHANGED <<lower_idx, upper_idx, last_success_idx, steps>>
         ELSE /\ lower_idx' = 0
              /\ upper_idx' = N - 1
              /\ last_success_idx' = None
              /\ steps' = 0
              /\ pc' = "loop"
              /\ UNCHANGED report
    /\ UNCHANGED <<dirnames, version_dict, stderr, on_disk, versions, probe, full_search_flag, mid_idx, result,
                   transcript, working_version>>

\* lines 155-168: loop test, choice of mid_idx, and the probe of that entry.
BinaryProbe ==
    /\ pc = "loop"
    /\ ~full_search_flag
    /\ lower_idx <= upper_idx
    /\ mid_idx' = MidIdx(lower_idx, upper_idx)
    /\ steps' = IncSteps(steps)
    /\ transcript' = Logged(transcript, mid_idx')
    /\ on_disk' = GetBinary(on_disk, mid_idx')
    /\ IF Launches(on_disk', mid_idx', probe[mid_idx' + 1])
         THEN /\ result' = ConfigureResult(probe[mid_idx' + 1].return_code,
                                           probe[mid_idx' + 1].hint)
              /\ pc' = "probed"
         ELSE /\ pc' = "crashed"
              /\ UNCHANGED result
    /\ UNCHANGED <<dirnames, version_dict, stderr, versions, probe, full_search_flag, lower_idx, upper_idx,
                   last_success_idx, working_version, report>>

\* Mutant of BinaryUpdate: a success keeps mid_idx inside the range.
BinaryUpdate_KeepUpper ==
    /\ pc = "probed"
    /\ ~full_search_flag
    /\ IF result.success
         THEN /\ last_success_idx' = mid_idx
              /\ upper_idx' = IF lower_idx < mid_idx THEN mid_idx ELSE mid_idx - 1
              /\ UNCHANGED lower_idx
         ELSE /\ lower_idx' = NextLowerIdx(versions, result.proposed_version, mid_idx)
              /\ UNCHANGED <<last_success_idx, upper_idx>>
    /\ pc' = "loop"
    /\ UNCHANGED <<dirnames, version_dict, stderr, on_disk, versions, probe, full_search_flag, steps, mid_idx, result,
                   transcript, working_version, report>>

\* lines 170-179: narrow the range.
BinaryUpdate ==
    /\ pc = "probed"
    /\ ~full_search_flag
    /\ IF result.success
         THEN /\ last_success_idx' = mid_idx
              /\ upper_idx' = mid_idx - 1
              /\ UNCHANGED lower_idx
         ELSE /\ lower_idx' = NextLowerIdx(versions, result.proposed_version, mid_idx)
              /\ UNCHANGED <<last_success_idx, upper_idx>>
    /\ pc' = "loop"
    /\ UNCHANGED <<dirnames, version_dict, stderr, on_disk, versions, probe, full_search_flag, steps, mid_idx, result,
                   transcript, working_version, report>>

\* line 181
BinaryReturn ==
    /\ pc = "loop"
    /\ ~full_search_flag
    /\ lower_idx > upper_idx
    /\ working_version' = SearchResult(last_success_idx)
    /\ pc' = "returned"
    /\ UNCHANGED <<dirnames, version_dict, stderr, on_disk, versions, probe, full_search_flag, lower_idx, upper_idx,
                   last_success_idx, steps, mid_idx, result, transcript, report>>

\* ------------------------------------------------------------ full_search
\* lines 185-192: max() of an empty list raises ValueError.
FullSearchStart ==
    /\ pc = "main"
    /\ full_search_flag
    /\ IF N = 0
         THEN /\ pc' = "crashed"
              /\ UNCHANGED <<lower_idx, upper_idx, last_success_idx, steps>>
         ELSE /\ lower_idx' = 0
              /\ upper_idx' = N - 1
              /\ last_success_idx' = None
              /\ steps' = 0
              /\ pc' = "loop"
    /\ UNCHANGED <<dirnames, version_dict, stderr, on_disk, versions, probe, full_search_flag, mid_idx, result,
                   transcript, working_version, report>>

\* lines 194-204: next entry of the inventory, and its probe.
FullProbe ==
    /\ pc = "loop"
    /\ full_search_flag
    /\ steps < N
    /\ steps' = steps + 1
    /\ transcript' = Logged(transcript, steps)
    /\ on_disk' = GetBinary(on_disk, steps)
    /\ IF Launches(on_disk', steps, probe[steps + 1])
         THEN /\ result' = ConfigureResult(probe[steps + 1].return_code,
                                           probe[steps + 1].hint)
              /\ pc' = "probed"
         ELSE /\ pc' = "crashed"
              /\ UNCHANGED result
    /\ UNCHANGED <<dirnames, version_dict, stderr, versions, probe, full_search_flag, lower_idx, upper_idx,
                   last_success_idx, mid_idx, working_version, report>>

\* lines 206-213
FullUpdate ==
    /\ pc = "probed"
    /\ full_search_flag
    /\ last_success_idx' = IF result.success
                             THEN FullNextLastSuccess(last_success_idx, steps)
                             ELSE last_success_idx
    /\ pc' = "loop"
    /\ UNCHANGED <<dirnames, version_dict, stderr, on_disk, versions, probe, full_search_flag, lower_idx, upper_idx,
                   steps, mid_idx, result, transcript, working_version, report>>

\* Mutant of FullReturn: the scan also ends as soon as a success is recorded.
FullReturn_EarlyStop ==
    /\ pc = "loop"
    /\ full_search_flag
    /\ (steps >= N \/ last_success_idx # None)
    /\ working_version' = SearchResult(last_success_idx)
    /\ pc' = "returned"
    /\ UNCHANGED <<dirnames, version_dict, stderr, on_disk, versions, probe, full_search_flag, lower_idx, upper_idx,
                   last_success_idx, steps, mid_idx, result, transcript, report>>

\* line 215
FullReturn ==
    /\ pc = "loop"
    /\ full_search_flag
    /\ steps >= N
    /\ working_version' = SearchResult(last_success_idx)
    /\ pc' = "returned"
    /\ UNCHANGED <<dirnames, version_dict, stderr, on_disk, versions, probe, full_search_flag, lower_idx, upper_idx,
                   last_success_idx, steps, mid_idx, result, transcript, report>>

\* ------------------------------------------------------------------- main
\* lines 234-241: the final [100%] line.
MainReport ==
    /\ pc = "returned"
    /\ report' = IF working_version # None THEN "MinimalWorkingVersion"
                                           ELSE "NoWorkingVersion"
    /\ pc' = "done"
    /\ UNCHANGED <<dirnames, version_dict, stderr, on_disk, versions, probe, full_search_flag, lower_idx, upper_idx,
                   last_success_idx, steps, mid_idx, result, transcript,
                   working_version>>

Next ==
    \/ BinarySearchStart
    \/ BinaryProbe
    \/ BinaryUpdate
    \/ BinaryReturn
    \/ FullSearchStart
    \/ FullProbe
    \/ FullUpdate
    \/ FullReturn
    \/ MainReport

Spec == Init /\ [][Next]_vars

\* The program is one sequential thread: it takes its next step whenever it
\* has one.
FairSpec == Spec /\ WF_vars(Next)

BlindSpec == BlindInit /\ [][Next]_vars

BlindFairSpec == BlindSpec /\ WF_vars(Next)

MaterialSpec == MaterialInit /\ [][Next]_vars

\* The inventory [3.10.0, 3.16.0, 3.20.0, 3.25.0], written 1, 2, 3, 4: only
\* 3.20.0 and 3.25.0 configure the project, and CMake 3.16.0 fails with
\* 'CMake 3.20 or higher is required.', which ConfigureResult reads as 3.20.0.
\* What 3.10.0 does when it fails, and whether it is on disk, is left open.
ScenarioInit ==
    /\ versions = <<1, 2, 3, 4>>
    /\ probe \in { [i \in 1..4 |->
                       CASE i = 1 -> b
                         [] i = 2 -> [launch |-> TRUE, return_code |-> 1, hint |-> 3]
                         [] OTHER -> [launch |-> TRUE, return_code |-> 0, hint |-> NoVersion]]
                   : b \in { [launch |-> FALSE, return_code |-> 0, hint |-> NoVersion] }
                          \cup { [launch |-> TRUE, return_code |-> 1, hint |-> h] : h \in 0..4 } }
    /\ on_disk \in { 0..3, 1..3 }
    /\ Scanned
    /\ InitProgram

ScenarioSpec == ScenarioInit /\ [][Next]_vars

\* ----------------------------------------------------- get_cmake_binaries
\* A directory 'cmake-<version>-<rest>' of the tools directory, and one whose
\* name has no second dash, in which the pattern 'cmake-([^-]+)-' finds
\* nothing.  A release candidate 'cmake-3.10.0-rc1-Linux-x86_64' yields the
\* version of the release, as the pattern stops at the first dash.
DirNames ==
    { [version |-> v, rest |-> r] :
        v \in 1..MaxVer, r \in {"Linux-x86_64", "linux-x86_64", "rc1-Linux-x86_64"} }
    \cup { [version |-> NoVersion, rest |-> ""] }

\* The entries appended in the loop over the glob: the pattern matches and
\* the version is a key of version_dict.
Binaries(dirs, dict) == { d \in dirs : d.version # NoVersion /\ d.version \in dict }

\* sorted(binaries, key=version_parse(x.version)), as the list of the versions
\* from version v on: every entry is kept, equal versions side by side.
RECURSIVE SortedVersions(_, _)
SortedVersions(binaries, v) ==
    IF v > MaxVer
        THEN <<>>
        ELSE [i \in 1..Cardinality({ d \in binaries : d.version = v }) |-> v]
                 \o SortedVersions(binaries, v + 1)

InventoryInit ==
    /\ dirnames \in SUBSET DirNames
    /\ version_dict \in SUBSET (1..MaxVer)
    /\ versions = <<>>
    /\ probe = <<>>
    /\ on_disk = {}
    /\ full_search_flag \in BOOLEAN
    /\ pc = "scan"
    /\ stderr = NoMatch
    /\ lower_idx = 0
    /\ upper_idx = 0
    /\ last_success_idx = None
    /\ steps = 0
    /\ mid_idx = 0
    /\ result = NoResult
    /\ transcript = <<>>
    /\ working_version = None
    /\ report = "none"

\* lines 97-117
GetCmakeBinaries ==
    /\ pc = "scan"
    /\ versions' = SortedVersions(Binaries(dirnames, version_dict), 1)
    /\ pc' = "scanned"
    /\ UNCHANGED <<dirnames, version_dict, stderr, on_disk, probe, full_search_flag,
                   lower_idx, upper_idx, last_success_idx, steps, mid_idx, result,
                   transcript, working_version, report>>

InventoryNext == GetCmakeBinaries

InventorySpec == InventoryInit /\ [][InventoryNext]_vars

\* ------------------------------------------------ ConfigureResult.__init__
\* The text captured by 'CMake ([^ ]+) or higher is required.' is a non-empty
\* sequence of dots and digit groups; NoMatch when stderr has no such sentence.
Alphabet == {".", "3", "10", "20"}
Captures == UNION { [1..n -> Alphabet] : n \in 1..MaxTokenLen }

\* '..' in s: the positions where two dots follow each other
DotDotAt(s) == { i \in 1..(Len(s) - 1) : s[i] = "." /\ s[i + 1] = "." }

\* s.split('..')[0]: the text before the first '..'
BeforeDotDot(s) ==
    SubSeq(s, 1, (CHOOSE i \in DotDotAt(s) : \A j \in DotDotAt(s) : i <= j) - 1)

\* s.count('.')
CountDots(s) == Cardinality({ i \in 1..Len(s) : s[i] = "." })

\* lines 40-41
AppendPatch(s) == IF CountDots(s) = 1 THEN s \o <<".", "0">> ELSE s

\* Mutant of ProposedVersion: the dots are counted before the range is cut.
ProposedVersion_CountFirst(found) ==
    IF found = NoMatch
        THEN NoVersion
        ELSE IF CountDots(found) = 1
                 THEN found \o <<".", "0">>
                 ELSE IF DotDotAt(found) # {} THEN BeforeDotDot(found) ELSE found

\* lines 33-43: proposed_version from what re.findall found.
ProposedVersion(found) ==
    IF found = NoMatch
        THEN NoVersion
        ELSE AppendPatch(IF DotDotAt(found) # {} THEN BeforeDotDot(found) ELSE found)

InterpretInit ==
    /\ stderr \in Captures \cup {NoMatch}
    /\ dirnames = {}
    /\ version_dict = {}
    /\ versions = <<>>
    /\ probe = <<>>
    /\ on_disk = {}
    /\ full_search_flag = FALSE
    /\ pc = "interpret"
    /\ lower_idx = 0
    /\ upper_idx = 0
    /\ last_success_idx = None
    /\ steps = 0
    /\ mid_idx = 0
    /\ result = NoResult
    /\ transcript = <<>>
    /\ working_version = None
    /\ report = "none"

\* ConfigureResult(return_code=proc.returncode, stderr=stderr), line 138
Interpret ==
    /\ pc = "interpret"
    /\ \E return_code \in {0, 1} :
           result' = ConfigureResult(return_code, ProposedVersion(stderr))
    /\ pc' = "interpreted"
    /\ UNCHANGED <<dirnames, version_dict, stderr, on_disk, versions, probe,
                   full_search_flag, lower_idx, upper_idx, last_success_idx, steps,
                   mid_idx, transcript, working_version, report>>

InterpretNext == Interpret

InterpretSpec == InterpretInit /\ [][InterpretNext]_vars

ScenarioFairSpec == ScenarioSpec /\ WF_vars(Next)

TypeOK ==
    /\ pc \in {"main", "loop", "probed", "returned", "done", "exit", "crashed",
               "scan", "scanned", "interpret", "interpreted"}
    /\ steps \in 0..MaxSteps
    /\ Len(transcript) <= MaxSteps
    /\ last_success_idx \in -1..(N - 1)
    /\ working_version \in -1..(N - 1)
    /\ report \in {"none", "NoBinariesFound", "MinimalWorkingVersion", "NoWorkingVersion"}

\* ================================================================ claims
\* ----------------------------------------------------- shared vocabulary
BinaryMode == ~full_search_flag
FullMode == full_search_flag
Indices == 0..(N - 1)
Returned == pc \in {"returned", "done"}

\* Entry i (0-based) starts and exits with 0.
Works(i) == probe[i + 1].launch /\ probe[i + 1].return_code = 0
AllLaunch == \A i \in Indices : probe[i + 1].launch
AllFail == \A i \in Indices : probe[i + 1].launch /\ probe[i + 1].return_code # 0
StrictlyIncreasing == \A i \in 1..N : \A j \in 1..N : i < j => versions[i] < versions[j]
\* once an index succeeds every higher index succeeds (all-fail included)
Monotonic == \A i \in Indices : \A j \in Indices : (i < j /\ Works(i)) => Works(j)
\* no failure names a version that some entry of the inventory has
NoUsableHint == \A i \in Indices : \A j \in 1..N : versions[j] # probe[i + 1].hint
\* no failure names any version
NoHint == \A i \in Indices : probe[i + 1].hint = NoVersion
\* a threshold k in 0..N-1 exists: indices < k fail, indices >= k succeed
HasThreshold == N >= 1 /\ AllLaunch /\ Monotonic /\ Works(N - 1)
\* (None when no entry works)
Threshold ==
    IF \E k \in Indices : Works(k)
        THEN CHOOSE k \in Indices : Works(k) /\ \A i \in Indices : Works(i) => k <= i
        ELSE None

RECURSIVE FloorLog2(_)
FloorLog2(n) == IF n <= 1 THEN 0 ELSE 1 + FloorLog2(n \div 2)
RECURSIVE CeilLog2(_)
CeilLog2(n) == IF n <= 1 THEN 0 ELSE 1 + CeilLog2((n + 1) \div 2)

NoRepeat(tr) == \A i \in 1..Len(tr) : \A j \in 1..Len(tr) : i # j => tr[i] # tr[j]

\* The hypothesis of C1 and C2.
BlindThresholdRun ==
    BinaryMode /\ StrictlyIncreasing /\ HasThreshold /\ NoUsableHint

\* C1: with N >= 1 strictly increasing versions, a monotonic threshold k and
\* no usable version hint on any failure, binary_search ends, and what it
\* returns is the entry at index k.
C1_BlindBisectionReturnsThreshold ==
    BlindThresholdRun => <>[](pc = "done" /\ working_version = Threshold)

\* C1 witness: a finished blind run over at least 4 entries whose threshold is
\* neither the first nor the last entry, some failure naming a version that
\* is not in the inventory.
C1_Witness ==
    /\ BlindThresholdRun
    /\ pc = "done"
    /\ N >= 4
    /\ Threshold \in 1..(N - 2)
    /\ working_version = Threshold
    /\ \E i \in Indices : probe[i + 1].hint # NoVersion

\* C2 (amended): under the hypothesis of C1, binary_search performs at most
\* floor(log2(N)) + 1 probes.
C2_ProbesAtMostFloorLog2Plus1 ==
    BlindThresholdRun => steps <= FloorLog2(N) + 1

\* C2 as stated: at most ceil(log2(N)) probes.
C2_ProbesAtMostCeilLog2 ==
    BlindThresholdRun => steps <= CeilLog2(N)

\* C2 witness: a finished blind run over at least 4 entries that used exactly
\* floor(log2(N)) + 1 probes.
C2_Witness ==
    /\ BlindThresholdRun
    /\ pc = "done"
    /\ N >= 4
    /\ steps = FloorLog2(N) + 1
    /\ Len(transcript) = steps

\* full_search as a function of the inventory: lines 194-215 applied to the
\* entries st, st+1, ... with last_success_idx = last before them.
RECURSIVE FullSearchFrom(_, _)
FullSearchFrom(last, st) ==
    IF st >= N
        THEN SearchResult(last)
        ELSE FullSearchFrom(
                 IF ConfigureResult(probe[st + 1].return_code, probe[st + 1].hint).success
                     THEN FullNextLastSuccess(last, st + 1)
                     ELSE last,
                 st + 1)

\* C3: on a non-empty inventory with monotonic outcomes and no version hint,
\* what binary_search returns is what full_search returns on the same
\* inventory (the same entry, or None for both).
C3_BinaryAgreesWithFull ==
    (BinaryMode /\ Returned /\ N >= 1 /\ AllLaunch /\ Monotonic /\ NoHint)
        => working_version = FullSearchFrom(None, 0)

\* C4: what full_search returns is the entry of the first probe that
\* succeeded (None when none did), whatever the later probes do.
C4_FullReturnsFirstSuccess ==
    (FullMode /\ Returned)
        => /\ (working_version = None) = (\A i \in Indices : ~Works(i))
           /\ working_version # None =>
                  Works(working_version) /\ \A i \in Indices : Works(i) => working_version <= i

\* C5: on a non-empty inventory whose binaries all start, binary_search
\* leaves its loop, whatever the outcomes and the version hints.
C5_BinarySearchTerminates ==
    (BinaryMode /\ N >= 1 /\ AllLaunch) => <>Returned

\* After a failing probe of binary_search whose proposed version is the
\* version of some entry: lower_idx has just been assigned from it.
AfterHintedFailure ==
    /\ BinaryMode
    /\ pc = "loop"
    /\ steps > 0
    /\ ~result.success
    /\ \E j \in 1..N : versions[j] = result.proposed_version

\* The index of the first entry whose version is v (None when there is none).
FirstIndexOfVersion(v) ==
    IF \E i \in Indices : versions[i + 1] = v
        THEN CHOOSE i \in Indices : versions[i + 1] = v /\ \A j \in Indices : versions[j + 1] = v => i <= j
        ELSE None

\* C6: after a failing probe at mid_idx that proposes the version of an
\* inventory entry, lower_idx is that entry's index if it is >= mid_idx, and
\* mid_idx + 1 otherwise.
C6_HintBelowMidFallsBackToMidPlus1 ==
    (AfterHintedFailure /\ StrictlyIncreasing) =>
        lower_idx = IF FirstIndexOfVersion(result.proposed_version) >= mid_idx
                        THEN FirstIndexOfVersion(result.proposed_version)
                        ELSE mid_idx + 1

\* C7: after a failing probe that proposes the version of an inventory entry,
\* lower_idx is the index of that entry (of the first one of that version),
\* wherever it lies relative to mid_idx and upper_idx.
C7_LowerIsHintedIndex ==
    AfterHintedFailure =>
        /\ lower_idx \in Indices
        /\ versions[lower_idx + 1] = result.proposed_version
        /\ \A j \in Indices : versions[j + 1] = result.proposed_version => lower_idx <= j

\* C7 witness: a failing probe has moved lower_idx back to a hinted entry
\* below mid_idx.
C7_Witness ==
    /\ AfterHintedFailure
    /\ StrictlyIncreasing
    /\ lower_idx < mid_idx
    /\ versions[lower_idx + 1] = result.proposed_version

\* C8: no entry is probed twice within one run of either search.
C8_NoEntryProbedTwice == NoRepeat(transcript)

\* C9: with an empty inventory the program probes nothing and ends with the
\* NoBinariesFound error, under both strategies.
C9_EmptyInventoryReportsNoBinaries ==
    (N = 0 /\ pc # "main")
        => pc = "exit" /\ report = "NoBinariesFound" /\ steps = 0 /\ transcript = <<>>

\* C10: on a non-empty inventory where every probe fails, whatever the hints,
\* the program completes and prints that no working version was found.
C10_AllFailReportsNoWorkingVersion ==
    (N >= 1 /\ AllFail)
        => <>(pc = "done" /\ working_version = None /\ report = "NoWorkingVersion")

\* The set of the entries probed so far.
Probed == { transcript[i] : i \in 1..Len(transcript) }

\* C11: on [3.10.0, 3.16.0, 3.20.0, 3.25.0] where only the last two work and
\* the failure of 3.16.0 proposes 3.20, binary_search moves lower_idx to the
\* index of 3.20.0 after probing 3.16.0, never probes 3.10.0, uses at most 3
\* probes, and ends reporting 3.20.0.
C11_ScenarioReports320 ==
    BinaryMode =>
        /\ [](/\ 0 \notin Probed
              /\ steps <= 3
              /\ (pc = "loop" /\ steps = 1) => (mid_idx = 1 /\ lower_idx = 2)
              /\ Returned => working_version = 2)
        /\ <>[](pc = "done" /\ working_version = 2 /\ report = "MinimalWorkingVersion")

\* C11 witness: the finished scenario, 3.16.0 and 3.20.0 probed, 3.20.0
\* reported.
C11_Witness ==
    /\ BinaryMode
    /\ versions = <<1, 2, 3, 4>>
    /\ probe[2].hint = 3
    /\ pc = "done"
    /\ transcript = <<1, 2>>
    /\ working_version = 2

\* C12: full_search probes the entries in ascending index order from the
\* first one, one probe per entry, and returns only after all N entries were
\* probed, whatever the outcomes.
C12_FullScanProbesAllAscending ==
    FullMode =>
        /\ \A i \in 1..Len(transcript) : transcript[i] = i - 1
        /\ (pc # "main" /\ N >= 1) => Len(transcript) = steps
        /\ Returned => Len(transcript) = N

\* C12 witness: a finished scan of 3 entries whose first entry succeeded and
\* whose second failed.
C12_Witness ==
    /\ FullMode
    /\ pc = "done"
    /\ N = 3
    /\ Works(0)
    /\ ~Works(1)
    /\ transcript = <<0, 1, 2>>

\* C13: the inventory get_cmake_binaries returns is strictly increasing by
\* version, no version twice, whatever directories the tools directory holds.
C13_InventoryStrictlyIncreasing ==
    pc = "scanned" => StrictlyIncreasing

\* Shapes of a captured text: 'a.b', 'a.b.c', and a bound of a range.
IsNumber(x) == x # "."
TwoComponents(s) == Len(s) = 3 /\ IsNumber(s[1]) /\ s[2] = "." /\ IsNumber(s[3])
ThreeComponents(s) ==
    /\ Len(s) = 5
    /\ IsNumber(s[1]) /\ s[2] = "." /\ IsNumber(s[3]) /\ s[4] = "." /\ IsNumber(s[5])
OneComponent(s) == Len(s) = 1 /\ IsNumber(s[1])
\* lower..upper with the '..' at positions k + 1 and k + 2
IsRangeAt(s, k) ==
    /\ k + 3 <= Len(s)
    /\ s[k + 1] = "." /\ s[k + 2] = "."
    /\ TwoComponents(SubSeq(s, 1, k)) \/ ThreeComponents(SubSeq(s, 1, k))
    /\ \/ OneComponent(SubSeq(s, k + 3, Len(s)))
       \/ TwoComponents(SubSeq(s, k + 3, Len(s)))
       \/ ThreeComponents(SubSeq(s, k + 3, Len(s)))
\* major.minor.patch
Normalized(s) == IF TwoComponents(s) THEN <<s[1], ".", s[3], ".", "0">> ELSE s

\* C14: proposed_version is None when the pattern does not match; 'a.b'
\* becomes 'a.b.0'; 'a.b.c' stays; of a range 'lower..upper' the normalized
\* lower bound is kept.
C14_ProposedVersionNormalized ==
    pc = "interpreted" =>
        IF stderr = NoMatch
            THEN result.proposed_version = NoVersion
            ELSE /\ TwoComponents(stderr) =>
                        result.proposed_version = <<stderr[1], ".", stderr[3], ".", "0">>
                 /\ ThreeComponents(stderr) => result.proposed_version = stderr
                 /\ \A k \in 1..Len(stderr) :
                        IsRangeAt(stderr, k) =>
                            result.proposed_version = Normalized(SubSeq(stderr, 1, k))

\* C14 witness: '3.10..3.20' was read as '3.10.0'.
C14_Witness ==
    /\ pc = "interpreted"
    /\ stderr = <<"3", ".", "10", ".", ".", "3", ".", "20">>
    /\ result.proposed_version = <<"3", ".", "10", ".", "0">>

\* The binary of entry i is missing (and get_binary cannot fetch it) or
\* cannot be started.
Unlaunchable(i) == i \notin on_disk \/ ~probe[i + 1].launch

\* C15: a probe that cannot be launched, or whose binary cannot be
\* materialized, is the last thing the search does: no probe follows it and
\* the program ends without a returned version and without a final report.
C15_UnlaunchableProbeAborts ==
    N >= 1 =>
        /\ \A k \in 1..Len(transcript) :
               Unlaunchable(transcript[k]) => (pc = "crashed" /\ k = Len(transcript))
        /\ pc = "crashed" => (working_version = None /\ report = "none")

\* C15 witness: the search had recorded a success, then probed an entry whose
\* binary is not on disk, and stopped there.
C15_Witness ==
    /\ pc = "crashed"
    /\ Len(transcript) >= 2
    /\ last_success_idx # None
    /\ transcript[Len(transcript)] \notin on_disk
    /\ working_version = None

\* C16: every entry that is probed has its binary on disk by the time
\* try_configure starts it: get_binary has fetched the ones that were missing.
C16_ProbedBinaryIsOnDisk ==
    N >= 1 => \A k \in 1..Len(transcript) : transcript[k] \in on_disk

\* The steps of the run at which the probe succeeded.
SuccessSteps == { k \in 1..Len(transcript) : Works(transcript[k]) }

\* The lowest index among the successful probes (None when there is none).
LowestSuccess ==
    IF SuccessSteps = {} THEN None
    ELSE CHOOSE i \in { transcript[k] : k \in SuccessSteps } :
             \A k \in SuccessSteps : i <= transcript[k]

\* C17: in binary_search every successful probe is at a strictly lower index
\* than every earlier successful probe; the returned entry is the lowest-index
\* entry among the probes that succeeded, and None is returned exactly when no
\* probe succeeded.
C17_ReturnsLowestSuccess ==
    BinaryMode =>
        /\ \A j, k \in SuccessSteps : j < k => transcript[k] < transcript[j]
        /\ (Returned /\ N >= 1 /\ Len(transcript) < MaxSteps) =>
               /\ working_version = LowestSuccess
               /\ (working_version = None <=> SuccessSteps = {})

\* C17 witness: a run with two successful probes has returned the later one.
C17_Witness ==
    /\ BinaryMode /\ Returned /\ Len(transcript) < MaxSteps
    /\ Cardinality(SuccessSteps) >= 2
    /\ working_version = LowestSuccess

\* C18: on a non-empty inventory binary_search keeps 0 <= lower_idx and
\* upper_idx <= N - 1, and each probed index lies in lower_idx..upper_idx, so
\* versions[mid_idx] is a valid access.
C18_IndicesInRange ==
    (BinaryMode /\ N >= 1 /\ pc \notin {"main", "exit"}) =>
        /\ 0 <= lower_idx
        /\ upper_idx <= N - 1
        /\ pc \in {"probed", "crashed"} =>
               /\ lower_idx <= mid_idx
               /\ mid_idx <= upper_idx
               /\ mid_idx \in Indices

\* C18 witness: a probe is made after a hint has moved lower_idx backwards and
\* a success has moved upper_idx down.
C18_Witness ==
    /\ BinaryMode /\ pc = "probed" /\ Len(transcript) >= 3
    /\ upper_idx < N - 1
    /\ \E k \in 1..(Len(transcript) - 1) : lower_idx <= transcript[k] /\ ~Works(transcript[k])
    /\ lower_idx <= mid_idx /\ mid_idx <= upper_idx
====
